---- MODULE Spec2Model ----
(***************************************************************************)
(* mac2mqtt: bridge between one host (volume, mute, battery, power         *)
(* actions) and an MQTT broker with Home Assistant discovery.              *)
(*                                                                         *)
(* The model follows src/main.go.  src/unnamed/part_000 is a second build  *)
(* of the same program that differs in the command callback (a one second  *)
(* settle delay after setVolume/setMute, no acknowledgement publish before *)
(* sleep/displaysleep/shutdown); the variable build selects which of the   *)
(* two callbacks runs.                                                     *)
(*                                                                         *)
(* Strings that the program parses or formats (payloads) are sequences of  *)
(* one-character strings, so that strconv.Atoi, strconv.ParseBool,         *)
(* strconv.Itoa and strconv.FormatBool are computed character by           *)
(* character.  Topics are sequences of their '/'-separated segments.       *)
(*                                                                         *)
(* The MQTT client (paho) is the environment of the program.  It is        *)
(* modelled with the options set in getMQTTClient: AutoReconnect and       *)
(* ConnectRetry.                                                           *)
(***************************************************************************)
EXTENDS Integers, Sequences, FiniteSets, TLC

VARIABLES
    build,          \* which build of the command callback runs
    proc,           \* main goroutine / process: "starting", "ticking", "panic", "fatal", "off"
    initialConnect, \* outcome of the first Connect token: "pending", "ok", "timeout", "error"
    status,         \* client connection status: "disconnected", "connected", "reconnecting"
    brokerUp,       \* the broker accepts connections
    subscribed,     \* the broker holds the command wildcard subscription of the session
    losses,         \* number of connection-loss events so far
    ocPending,      \* OnConnect callbacks launched by the client and not yet started
    ocPc,           \* position of the running connectHandler: 0 idle, 1..7 descriptor, 8 listen
    discoveryCalls, \* number of calls of publishHADiscoveryConfig
    listenCalls,    \* number of calls of listen that returned
    reconnectLoops, \* running reconnect goroutines started by connectLostHandler
    retryWait,      \* the client's automatic reconnect sleeps before its next attempt
    cmd,            \* message of the current / most recent command callback
    cmdPc,          \* position of the command callback
    hostCall,       \* host command issued by the current / most recent command callback
    hostCalls,      \* invocations of a host action made for the message of the command callback
    cmdPubs,        \* Publish calls of the current / most recent command callback
    tickPc,         \* position of the tick goroutine: "select", "updateMute", "powerAdapter"
    volumeTickerC,  \* a tick is waiting in volumeTicker.C
    batteryTickerC, \* a tick is waiting in batteryTicker.C
    batteryInfo,    \* percent, isCharging of the running updateBattery
    lastPub,        \* the most recent Publish call of the whole program
    hostVolume,     \* output volume of the host
    hostMuted,      \* output muted flag of the host
    hostBattery     \* battery of the host: charge percent and power source

vars == <<build, proc, initialConnect, status, brokerUp, subscribed, losses,
          ocPending, ocPc, discoveryCalls, listenCalls, reconnectLoops, retryWait,
          cmd, cmdPc, hostCall, hostCalls, cmdPubs, tickPc, volumeTickerC, batteryTickerC,
          batteryInfo,
          lastPub, hostVolume, hostMuted, hostBattery>>

connVars == <<status, brokerUp, subscribed, losses, ocPending, ocPc,
              discoveryCalls, listenCalls, reconnectLoops, retryWait>>
cmdVars  == <<cmd, cmdPc, hostCall, hostCalls, cmdPubs>>
tickVars == <<tickPc, batteryTickerC, batteryInfo>>
hostVars == <<hostVolume, hostMuted, hostBattery>>

-----------------------------------------------------------------------------
(* Bounds of the model *)

\* connection-loss events explored
MaxLosses == 2

-----------------------------------------------------------------------------
(* Program constants *)

MinVolume == 0
MaxVolume == 100
\* seconds
tokenTimeOut == 5
volumeTickerPeriod == 2

hostname == "MacBookPRO_M2"

Builds == {"main.go", "part_000"}

-----------------------------------------------------------------------------
(* strconv *)

Digits == <<"0", "1", "2", "3", "4", "5", "6", "7", "8", "9">>

IsDigit(c) == \E d \in 1..10 : Digits[d] = c

DigitVal(c) == (CHOOSE d \in 1..10 : Digits[d] = c) - 1

RECURSIVE ParseDigits(_, _)
\* value of the digit string s, read left to right with accumulator acc
ParseDigits(s, acc) ==
    IF s = <<>> THEN acc
    ELSE ParseDigits(Tail(s), acc * 10 + DigitVal(Head(s)))

\* strconv.Atoi: optional sign, then one or more decimal digits
Atoi(s) ==
    LET signed == s # <<>> /\ Head(s) \in {"-", "+"}
        body   == IF signed THEN Tail(s) ELSE s
    IN  IF body = <<>> \/ \E k \in 1..Len(body) : ~IsDigit(body[k])
        THEN [err |-> TRUE, val |-> 0]
        ELSE [err |-> FALSE,
              val |-> IF signed /\ Head(s) = "-"
                      THEN 0 - ParseDigits(body, 0)
                      ELSE ParseDigits(body, 0)]

RECURSIVE ItoaNat(_)
ItoaNat(n) ==
    IF n < 10 THEN <<Digits[n + 1]>>
    ELSE Append(ItoaNat(n \div 10), Digits[(n % 10) + 1])

\* strconv.Itoa
Itoa(i) == IF i < 0 THEN <<"-">> \o ItoaNat(0 - i) ELSE ItoaNat(i)

TrueForms  == { <<"1">>, <<"t">>, <<"T">>, <<"T","R","U","E">>,
                <<"t","r","u","e">>, <<"T","r","u","e">> }
FalseForms == { <<"0">>, <<"f">>, <<"F">>, <<"F","A","L","S","E">>,
                <<"f","a","l","s","e">>, <<"F","a","l","s","e">> }

\* a ParseBool that also takes "yes" / "on" for true
ParseBoolLoose(s) ==
    IF s \in TrueForms \cup { <<"y","e","s">>, <<"o","n">> } THEN [err |-> FALSE, val |-> TRUE]
    ELSE IF s \in FalseForms THEN [err |-> FALSE, val |-> FALSE]
    ELSE [err |-> TRUE, val |-> FALSE]

\* strconv.ParseBool
ParseBool(s) ==
    IF s \in TrueForms THEN [err |-> FALSE, val |-> TRUE]
    ELSE IF s \in FalseForms THEN [err |-> FALSE, val |-> FALSE]
    ELSE [err |-> TRUE, val |-> FALSE]

\* strconv.FormatBool
FormatBool(b) == IF b THEN <<"t","r","u","e">> ELSE <<"f","a","l","s","e">>

-----------------------------------------------------------------------------
(* Topics *)

getTopicPrefix == <<"homeassistant", hostname>>

CommandTopic(name) == getTopicPrefix \o <<"command", name>>
StateTopic(name)   == getTopicPrefix \o <<"state", name>>

\* the subscription of listen: getTopicPrefix()+"/command/#"
MatchesSubscription(topic) ==
    /\ Len(topic) >= 3
    /\ SubSeq(topic, 1, 3) = getTopicPrefix \o <<"command">>

-----------------------------------------------------------------------------
(* Discovery descriptors *)

\* encoding/json.Marshal of a struct: the fields in declaration order as
\* <<key, value>> pairs; a field tagged omitempty is left out when it is "".
\* A field is <<key, value, omitempty>>.
Marshal(fields) ==
    LET kept == SelectSeq(fields, LAMBDA f : IF f[3] THEN f[2] # "" ELSE TRUE)
    IN  [k \in 1..Len(kept) |-> <<kept[k][1], kept[k][2]>>]


\* a model name that is looked up again by each discovery pass, and changes
modelPerPass == IF discoveryCalls > 1 THEN "Mac" ELSE hostname

model == hostname

Device ==
    Marshal(<< <<"identifiers", <<hostname>>, FALSE>>,
               <<"name", hostname, FALSE>>,
               <<"manufacturer", "Apple", FALSE>>,
               <<"model", model, FALSE>> >>)

TopicString(name, kind) == "homeassistant/" \o hostname \o "/" \o kind \o "/" \o name

SensorConfig(name, stateTopic, uniqueId, unit, deviceClass, valueTemplate) ==
    Marshal(<< <<"name", name, FALSE>>,
               <<"state_topic", stateTopic, FALSE>>,
               <<"unique_id", uniqueId, FALSE>>,
               <<"unit_of_measurement", unit, TRUE>>,
               <<"device_class", deviceClass, TRUE>>,
               <<"value_template", valueTemplate, TRUE>>,
               <<"device", Device, FALSE>> >>)

BinarySensorConfig(name, stateTopic, uniqueId, deviceClass, payloadOn, payloadOff) ==
    Marshal(<< <<"name", name, FALSE>>,
               <<"state_topic", stateTopic, FALSE>>,
               <<"unique_id", uniqueId, FALSE>>,
               <<"device_class", deviceClass, TRUE>>,
               <<"payload_on", payloadOn, TRUE>>,
               <<"payload_off", payloadOff, TRUE>>,
               <<"device", Device, FALSE>> >>)

SwitchConfig(name, commandTopic, stateTopic, uniqueId) ==
    Marshal(<< <<"name", name, FALSE>>,
               <<"command_topic", commandTopic, FALSE>>,
               <<"state_topic", stateTopic, TRUE>>,
               <<"unique_id", uniqueId, FALSE>>,
               <<"device", Device, FALSE>> >>)

ButtonConfig(name, commandTopic, payloadPress, uniqueId) ==
    Marshal(<< <<"name", name, FALSE>>,
               <<"command_topic", commandTopic, FALSE>>,
               <<"payload_press", payloadPress, TRUE>>,
               <<"unique_id", uniqueId, FALSE>>,
               <<"device", Device, FALSE>> >>)

NumberConfig(name, commandTopic, stateTopic, uniqueId, min, max) ==
    Marshal(<< <<"name", name, FALSE>>,
               <<"command_topic", commandTopic, FALSE>>,
               <<"state_topic", stateTopic, FALSE>>,
               <<"unique_id", uniqueId, FALSE>>,
               <<"min", min, FALSE>>,
               <<"max", max, FALSE>>,
               <<"device", Device, FALSE>> >>)

Entity(component, objectId, config) ==
    [component |-> component, objectId |-> objectId, config |-> config]


\* a volume descriptor with the host identity as unique_id and a 0..10 scale
volumeNumberConfigBare ==
    Entity("number", hostname \o "_volume",
           NumberConfig(hostname \o " Volume", TopicString("volume", "command"),
                        TopicString("volume", "state"), hostname, 0, 10))

volumeNumberConfig ==
    Entity("number", hostname \o "_volume",
           NumberConfig(hostname \o " Volume", TopicString("volume", "command"),
                        TopicString("volume", "state"), hostname \o "_volume",
                        MinVolume, MaxVolume))

batteryConfig ==
    Entity("sensor", hostname \o "_battery",
           SensorConfig(hostname \o " Battery Level", TopicString("battery", "state"),
                        hostname \o "_battery", "%", "battery", ""))

\* the descriptors of publishHADiscoveryConfig, in the order of their publishConfig calls
publishHADiscoveryConfig(b) ==
    IF b = "main.go"
    THEN << volumeNumberConfig,
            Entity("switch", hostname \o "_mute",
                   SwitchConfig(hostname \o " Mute", TopicString("mute", "command"),
                                TopicString("mute", "state"), hostname \o "_mute")),
            batteryConfig,
            Entity("binary_sensor", hostname \o "_power_adapter",
                   BinarySensorConfig(hostname \o " Power Adapter",
                                      TopicString("power_adapter", "state"),
                                      hostname \o "_power_adapter", "plug", "true", "false")),
            Entity("switch", hostname \o "_sleep",
                   SwitchConfig(hostname \o " Sleep", TopicString("sleep", "command"),
                                TopicString("sleep", "state"), hostname \o "_sleep")),
            Entity("switch", hostname \o "_display_sleep",
                   SwitchConfig(hostname \o " Display Sleep",
                                TopicString("displaysleep", "command"),
                                TopicString("displaysleep", "state"),
                                hostname \o "_display_sleep")),
            Entity("switch", hostname \o "_shutdown",
                   SwitchConfig(hostname \o " Shutdown", TopicString("shutdown", "command"),
                                TopicString("shutdown", "state"), hostname \o "_shutdown")) >>
    ELSE << batteryConfig,
            Entity("binary_sensor", hostname \o "_power_adapter",
                   BinarySensorConfig(hostname \o " Power Adapter",
                                      TopicString("power_adapter", "state"),
                                      hostname \o "_power_adapter", "plug", "", "")),
            volumeNumberConfig,
            Entity("button", hostname \o "_mute",
                   ButtonConfig(hostname \o " Mute", TopicString("mute", "command"),
                                "true", hostname \o "_mute")),
            Entity("button", hostname \o "_sleep",
                   ButtonConfig(hostname \o " Sleep", TopicString("sleep", "command"),
                                "sleep", hostname \o "_sleep")),
            Entity("button", hostname \o "_display_sleep",
                   ButtonConfig(hostname \o " Display Sleep",
                                TopicString("displaysleep", "command"),
                                "displaysleep", hostname \o "_display_sleep")),
            Entity("button", hostname \o "_shutdown",
                   ButtonConfig(hostname \o " Shutdown", TopicString("shutdown", "command"),
                                "shutdown", hostname \o "_shutdown")) >>

NumEntities == Len(publishHADiscoveryConfig("main.go"))

\* fmt.Sprintf("homeassistant/%s/%s/config", component, objectId)
configTopic(component, objectId) == <<"homeassistant", component, objectId, "config">>

-----------------------------------------------------------------------------
(* Messages and records *)

NoCmd  == [topic |-> <<>>, payload |-> <<>>]
NoCall == [op |-> "none", arg |-> <<>>]
NoPub  == [topic |-> <<>>, payload |-> <<>>, retained |-> FALSE, result |-> "none"]


\* a Publish that sets the retained flag on every message
PublishRetained(topic, payload, retained, result) ==
    [topic |-> topic, payload |-> payload, retained |-> TRUE, result |-> result]

\* client.Publish(topic, 0, retained, payload) and the outcome of its token
Publish(topic, payload, retained, result) ==
    [topic |-> topic, payload |-> payload, retained |-> retained, result |-> result]

VolumePayloads ==
    { <<"0">>, <<"5","5">>, <<"1","0","0">>, <<"+","5","5">>,
      <<"1","0","1">>, <<"1","5","0">>, <<"-","1">>, <<"5",".","5">>,
      <<"a","b","c">>, <<>>, <<" ","5","5">>, <<"t","r","u","e">>, <<"-">> }

MutePayloads ==
    TrueForms \cup FalseForms \cup
    { <<"n","o","t","a","b","o","o","l">>, <<"y","e","s">>, <<"o","n">>, <<"O","N">>,
      <<"t","R","u","E">>, <<"2">>, <<>>, <<"5","5">> }

sleepLiteral        == <<"s","l","e","e","p">>
displaysleepLiteral == <<"d","i","s","p","l","a","y","s","l","e","e","p">>
shutdownLiteral     == <<"s","h","u","t","d","o","w","n">>

ActionPayloads ==
    { sleepLiteral, displaysleepLiteral, shutdownLiteral,
      <<"S","l","e","e","p">>, <<"s","l","e","e","p"," ">>, <<>> }

ActionTopics == {"sleep", "displaysleep", "shutdown"}

\* the messages a broker may deliver for the subscription of listen
Messages ==
    [topic : {CommandTopic("volume")}, payload : VolumePayloads]
    \cup [topic : {CommandTopic("mute")}, payload : MutePayloads]
    \cup [topic : {CommandTopic(a) : a \in ActionTopics}, payload : ActionPayloads]
    \cup [topic : {CommandTopic("restart"), CommandTopic("volume") \o <<"set">>,
                   getTopicPrefix \o <<"command">>},
          payload : {shutdownLiteral}]

-----------------------------------------------------------------------------
(* Host Control Interface *)

HostVolumes == {55, 56}


\* a getCurrentVolume that answers from the last setVolume instead of asking the host
getCurrentVolumeCached ==
    IF hostCall.op = "setVolume" THEN Atoi(hostCall.arg).val ELSE Atoi(Itoa(hostVolume)).val

\* getCommandOutput of "output volume of (get volume settings)", then strconv.Atoi
getCurrentVolume == Atoi(Itoa(hostVolume)).val

\* getCommandOutput of "output muted of (get volume settings)", then strconv.ParseBool
getMuteStatus == ParseBool(FormatBool(hostMuted)).val

BatteryStates == { [percent |-> 100, source |-> "AC Power"],
                   [percent |-> 87, source |-> "Battery Power"] }

\* getBatteryInfo: one run of pmset; the digits before '%' and whether the
\* output names "AC Power"
getBatteryInfo ==
    [percent |-> Itoa(hostBattery.percent), isCharging |-> hostBattery.source = "AC Power"]

\* no battery query is in use
NoInfo == [percent |-> <<>>, isCharging |-> FALSE]

\* the command line argument of setVolume / setMute
setVolume(i) == [op |-> "setVolume", arg |-> Itoa(i)]
setMute(b)   == [op |-> "setMute", arg |-> FormatBool(b)]

commandOf(name) ==
    CASE name = "sleep"        -> [op |-> "commandSleep", arg |-> <<>>]
      [] name = "displaysleep" -> [op |-> "commandDisplaySleep", arg |-> <<>>]
      [] name = "shutdown"     -> [op |-> "commandShutdown", arg |-> <<>>]

-----------------------------------------------------------------------------
(* MQTT client tokens *)

\* outcome of token.WaitTimeout(tokenTimeOut) / token.Error() of a Publish:
\* while the client reconnects a QoS 0 publish completes without error and
\* without being sent
PublishResults ==
    IF status = "connected" THEN {"ok", "timeout", "error"} ELSE {"unsent"}

SubscribeResults ==
    IF status = "connected" THEN {"ok", "timeout", "error"} ELSE {"error"}

\* a wait that ran into tokenTimeOut lasted longer than the volume ticker's period
AfterWait(result) ==
    IF result = "timeout" /\ proc = "ticking" /\ tokenTimeOut >= volumeTickerPeriod
    THEN TRUE
    ELSE volumeTickerC

-----------------------------------------------------------------------------
Init ==
    /\ build \in Builds
    /\ proc = "starting"
    /\ initialConnect = "pending"
    /\ status = "disconnected"
    /\ brokerUp \in BOOLEAN
    /\ subscribed = FALSE
    /\ losses = 0
    /\ ocPending = 0
    /\ ocPc = 0
    /\ discoveryCalls = 0
    /\ listenCalls = 0
    /\ reconnectLoops = 0
    /\ retryWait = FALSE
    /\ cmd = NoCmd
    /\ cmdPc = "idle"
    /\ hostCall = NoCall
    /\ hostCalls = 0
    /\ cmdPubs = <<>>
    /\ tickPc = "select"
    /\ volumeTickerC = FALSE
    /\ batteryTickerC = FALSE
    /\ batteryInfo = NoInfo
    /\ lastPub = NoPub
    /\ hostVolume \in HostVolumes
    /\ hostMuted \in BOOLEAN
    /\ hostBattery \in BatteryStates

-----------------------------------------------------------------------------
(* Connection supervisor *)

\* a getMQTTClient that logs a failed first Connect and returns the client anyway
getMQTTClientNoPanic ==
    /\ proc = "starting"
    /\ \E r \in (IF brokerUp THEN {"ok", "timeout", "error"} ELSE {"timeout", "error"}) :
          /\ initialConnect' = r
          /\ proc' = "ticking"
          /\ IF r = "ok"
             THEN /\ status' = "connected"
                  /\ ocPending' = ocPending + 1
             ELSE UNCHANGED <<status, ocPending>>
    /\ UNCHANGED <<build, brokerUp, subscribed, losses, ocPc, discoveryCalls, listenCalls,
                   reconnectLoops, retryWait, cmdVars, tickVars, volumeTickerC, lastPub,
                   hostVars>>

\* getMQTTClient: client.Connect(), wait 5 s, panic on timeout or error.
\* On success the client has launched connectHandler in its own goroutine
\* and main goes on to create the tickers.
getMQTTClient ==
    /\ proc = "starting"
    /\ \E r \in (IF brokerUp THEN {"ok", "timeout", "error"} ELSE {"timeout", "error"}) :
          /\ initialConnect' = r
          /\ IF r = "ok"
             THEN /\ proc' = "ticking"
                  /\ status' = "connected"
                  /\ ocPending' = ocPending + 1
             ELSE /\ proc' = "panic"
                  /\ UNCHANGED <<status, ocPending>>
    /\ UNCHANGED <<build, brokerUp, subscribed, losses, ocPc, discoveryCalls, listenCalls,
                   reconnectLoops, retryWait, cmdVars, tickVars, volumeTickerC, lastPub,
                   hostVars>>

\* a connectHandler that announces and subscribes on the first connection only
connectHandlerOnce ==
    /\ proc = "ticking"
    /\ ocPending > 0
    /\ ocPc = 0
    /\ ocPending' = ocPending - 1
    /\ IF discoveryCalls = 0
       THEN ocPc' = 1 /\ discoveryCalls' = discoveryCalls + 1
       ELSE UNCHANGED <<ocPc, discoveryCalls>>
    /\ UNCHANGED <<build, proc, initialConnect, status, brokerUp, subscribed, losses,
                   listenCalls, reconnectLoops, retryWait, cmdVars, tickVars,
                   volumeTickerC, lastPub, hostVars>>

\* connectHandler starts: it logs and calls publishHADiscoveryConfig
connectHandler ==
    /\ proc = "ticking"
    /\ ocPending > 0
    /\ ocPc = 0
    /\ ocPending' = ocPending - 1
    /\ ocPc' = 1
    /\ discoveryCalls' = discoveryCalls + 1
    /\ UNCHANGED <<build, proc, initialConnect, status, brokerUp, subscribed, losses,
                   listenCalls, reconnectLoops, retryWait, cmdVars, tickVars,
                   volumeTickerC, lastPub, hostVars>>


\* a publishConfig whose caller gives the pass up when the publish timed out or failed
publishConfigAbort ==
    /\ proc = "ticking"
    /\ ocPc \in 1..NumEntities
    /\ LET e == publishHADiscoveryConfig(build)[ocPc]
       IN  \E r \in PublishResults :
              /\ lastPub' = Publish(configTopic(e.component, e.objectId), e.config, TRUE, r)
              /\ volumeTickerC' = AfterWait(r)
              /\ ocPc' = IF r \in {"timeout", "error"} THEN 0 ELSE ocPc + 1
    /\ UNCHANGED <<build, proc, initialConnect, status, brokerUp, subscribed, losses,
                   ocPending, discoveryCalls, listenCalls, reconnectLoops, retryWait,
                   cmdVars, tickVars, hostVars>>

\* publishConfig of the descriptor at position ocPc: one retained publish, one wait
publishConfig ==
    /\ proc = "ticking"
    /\ ocPc \in 1..NumEntities
    /\ LET e == publishHADiscoveryConfig(build)[ocPc]
       IN  \E r \in PublishResults :
              /\ lastPub' = Publish(configTopic(e.component, e.objectId), e.config, TRUE, r)
              /\ volumeTickerC' = AfterWait(r)
    /\ ocPc' = ocPc + 1
    /\ UNCHANGED <<build, proc, initialConnect, status, brokerUp, subscribed, losses,
                   ocPending, discoveryCalls, listenCalls, reconnectLoops, retryWait,
                   cmdVars, tickVars, hostVars>>


\* a listen that ends the process when its Subscribe token timed out or failed
listenFatalOnError ==
    /\ proc = "ticking"
    /\ ocPc = NumEntities + 1
    /\ \E r \in SubscribeResults, late \in BOOLEAN :
          /\ subscribed' = CASE r = "ok"      -> TRUE
                             [] r = "timeout" -> (subscribed \/ late)
                             [] OTHER         -> subscribed
          /\ volumeTickerC' = AfterWait(r)
          /\ proc' = IF r = "ok" THEN proc ELSE "fatal"
    /\ listenCalls' = listenCalls + 1
    /\ ocPc' = 0
    /\ UNCHANGED <<build, initialConnect, status, brokerUp, losses, ocPending,
                   discoveryCalls, reconnectLoops, retryWait, cmdVars, tickVars, lastPub,
                   hostVars>>

\* listen: client.Subscribe of the command wildcard, one wait; ends connectHandler
listen ==
    /\ proc = "ticking"
    /\ ocPc = NumEntities + 1
    /\ \E r \in SubscribeResults, late \in BOOLEAN :
          /\ subscribed' = CASE r = "ok"      -> TRUE
                             [] r = "timeout" -> (subscribed \/ late)
                             [] OTHER         -> subscribed
          /\ volumeTickerC' = AfterWait(r)
    /\ listenCalls' = listenCalls + 1
    /\ ocPc' = 0
    /\ UNCHANGED <<build, proc, initialConnect, status, brokerUp, losses, ocPending,
                   discoveryCalls, reconnectLoops, retryWait, cmdVars, tickVars, lastPub,
                   hostVars>>

\* The connection drops.  With AutoReconnect the client starts reconnecting and
\* calls connectLostHandler, which logs and starts one reconnect goroutine.
connectLostHandler ==
    /\ proc = "ticking"
    /\ status = "connected"
    /\ losses < MaxLosses
    /\ losses' = losses + 1
    /\ status' = "reconnecting"
    /\ subscribed' = FALSE
    /\ reconnectLoops' = reconnectLoops + 1
    /\ retryWait' = FALSE
    /\ brokerUp' \in BOOLEAN
    /\ UNCHANGED <<build, proc, initialConnect, ocPending, ocPc, discoveryCalls,
                   listenCalls, cmdVars, tickVars, volumeTickerC, lastPub, hostVars>>

\* token of client.Connect() as the reconnect goroutine sees it after its wait:
\* on a client that is not disconnected (ConnectRetry is set) the token
\* completes at once without error and no second connection is made
Connect(st, up) ==
    IF st # "disconnected" \/ up THEN "ok" ELSE "timeout"

\* a reconnect goroutine that, once its Connect succeeded, announces and
\* subscribes itself, on top of the client's OnConnect callback
reconnectLoopAnnounce ==
    /\ proc = "ticking"
    /\ reconnectLoops > 0
    /\ LET token == Connect(status, brokerUp)
       IN  /\ reconnectLoops' = IF token = "ok" THEN reconnectLoops - 1 ELSE reconnectLoops
           /\ status' = IF status = "disconnected" /\ token = "ok" THEN "connected" ELSE status
           /\ ocPending' = IF token = "ok" THEN ocPending + 1 ELSE ocPending
           /\ volumeTickerC' = AfterWait(token)
    /\ UNCHANGED <<build, proc, initialConnect, brokerUp, subscribed, losses, ocPc,
                   discoveryCalls, listenCalls, retryWait, cmdVars, tickVars, lastPub,
                   hostVars>>


\* a reconnect goroutine whose Connect dials the broker whatever the status of
\* the client is, and so opens a session of its own
reconnectLoopDials ==
    /\ proc = "ticking"
    /\ reconnectLoops > 0
    /\ LET token == IF brokerUp THEN "ok" ELSE "timeout"
       IN  /\ reconnectLoops' = IF token = "ok" THEN reconnectLoops - 1 ELSE reconnectLoops
           /\ IF token = "ok"
              THEN status' = "connected" /\ ocPending' = ocPending + 1
              ELSE UNCHANGED <<status, ocPending>>
           /\ volumeTickerC' = AfterWait(token)
    /\ UNCHANGED <<build, proc, initialConnect, brokerUp, subscribed, losses, ocPc,
                   discoveryCalls, listenCalls, retryWait, cmdVars, tickVars, lastPub,
                   hostVars>>

\* one iteration of the loop of the reconnect goroutine: Connect, wait 5 s,
\* break on success, otherwise sleep 5 s and go round again
reconnectLoop ==
    /\ proc = "ticking"
    /\ reconnectLoops > 0
    /\ LET token == Connect(status, brokerUp)
       IN  /\ reconnectLoops' = IF token = "ok" THEN reconnectLoops - 1 ELSE reconnectLoops
           /\ IF status = "disconnected" /\ token = "ok"
              THEN status' = "connected" /\ ocPending' = ocPending + 1
              ELSE UNCHANGED <<status, ocPending>>
           /\ volumeTickerC' = AfterWait(token)
    /\ UNCHANGED <<build, proc, initialConnect, brokerUp, subscribed, losses, ocPc,
                   discoveryCalls, listenCalls, retryWait, cmdVars, tickVars, lastPub,
                   hostVars>>

\* the client's automatic reconnect reaches the broker: the session is
\* restored and the client launches connectHandler
autoReconnect ==
    /\ proc = "ticking"
    /\ status = "reconnecting"
    /\ ~retryWait
    /\ brokerUp
    /\ status' = "connected"
    /\ ocPending' = ocPending + 1
    /\ UNCHANGED <<build, proc, initialConnect, brokerUp, subscribed, losses, ocPc,
                   discoveryCalls, listenCalls, reconnectLoops, retryWait, cmdVars,
                   tickVars, volumeTickerC, lastPub, hostVars>>

\* an attempt of the automatic reconnect fails: the client sleeps before the next
autoReconnectFails ==
    /\ proc = "ticking"
    /\ status = "reconnecting"
    /\ ~retryWait
    /\ ~brokerUp
    /\ retryWait' = TRUE
    /\ UNCHANGED <<build, proc, initialConnect, status, brokerUp, subscribed, losses,
                   ocPending, ocPc, discoveryCalls, listenCalls, reconnectLoops, cmdVars,
                   tickVars, volumeTickerC, lastPub, hostVars>>

\* the sleep between two attempts of the automatic reconnect ends
retryInterval ==
    /\ proc = "ticking"
    /\ status = "reconnecting"
    /\ retryWait
    /\ retryWait' = FALSE
    /\ UNCHANGED <<build, proc, initialConnect, status, brokerUp, subscribed, losses,
                   ocPending, ocPc, discoveryCalls, listenCalls, reconnectLoops, cmdVars,
                   tickVars, volumeTickerC, lastPub, hostVars>>

\* the broker becomes reachable again
brokerRecovers ==
    /\ proc = "ticking"
    /\ ~brokerUp
    /\ brokerUp' = TRUE
    /\ UNCHANGED <<build, proc, initialConnect, status, subscribed, losses, ocPending,
                   ocPc, discoveryCalls, listenCalls, reconnectLoops, retryWait, cmdVars,
                   tickVars, volumeTickerC, lastPub, hostVars>>

-----------------------------------------------------------------------------
(* Command router: the callback of listen *)

\* ValidVolume without the range check
ValidVolumeNoRange(payload) == ~Atoi(payload).err

ValidVolume(payload) ==
    LET a == Atoi(payload)
    IN  ~a.err /\ a.val >= MinVolume /\ a.val <= MaxVolume

\* ValidMute without the check of the parse error
ValidMuteUnchecked(payload) == TRUE

ValidMute(payload) == ~ParseBool(payload).err

\* ActionLiteral with the literal of sleep pasted into the other two topics
ActionLiteralPasted(name) == sleepLiteral

ActionLiteral(name) ==
    CASE name = "sleep"        -> sleepLiteral
      [] name = "displaysleep" -> displaysleepLiteral
      [] name = "shutdown"     -> shutdownLiteral

\* "sleep_command_received", "displaysleep_command_received", "shutdown_command_received"
Acknowledgement(name) ==
    ActionLiteral(name) \o <<"_","c","o","m","m","a","n","d","_","r","e","c","e","i","v","e","d">>

\* the topics the callback compares msg.Topic() with
KnownCommandTopics ==
    {CommandTopic(n) : n \in {"volume", "mute", "sleep", "displaysleep", "shutdown"}}

\* a router that adds a route with every Subscribe, so that after n calls of
\* listen the callback is held n times
RoutesPerSubscribe == listenCalls

\* Routes of the client's router that a message under the command wildcard
\* matches.  listen passes the same filter to client.Subscribe every time, and
\* Subscribe with a filter that has a route replaces that route's callback;
\* the router runs the callback of each matching route.
Routes == IF listenCalls = 0 THEN 0 ELSE 1

\* a callback that ends with log.Fatal for a topic it does not know
DeliverUnknownFatal(m) ==
    /\ proc = "ticking"
    /\ status = "connected"
    /\ subscribed
    /\ cmdPc = "idle"
    /\ MatchesSubscription(m.topic)
    /\ cmd' = m
    /\ CASE m.topic = CommandTopic("volume") /\ ValidVolume(m.payload) ->
              \/ /\ hostCall' = setVolume(Atoi(m.payload).val)
                 /\ hostCalls' = Routes
                 /\ hostVolume' = Atoi(m.payload).val
                 /\ cmdPubs' = <<>>
                 /\ cmdPc' = IF build = "part_000" THEN "settle" ELSE "updateVolume"
                 /\ UNCHANGED <<proc, hostMuted, hostBattery, lastPub, volumeTickerC>>
              \/ /\ proc' = "fatal"
                 /\ hostCall' = setVolume(Atoi(m.payload).val)
                 /\ hostCalls' = Routes
                 /\ cmdPubs' = <<>>
                 /\ UNCHANGED <<cmdPc, hostVars, lastPub, volumeTickerC>>
         [] m.topic = CommandTopic("mute") /\ ValidMute(m.payload) ->
              \/ /\ hostCall' = setMute(ParseBool(m.payload).val)
                 /\ hostCalls' = Routes
                 /\ hostMuted' = ParseBool(m.payload).val
                 /\ cmdPubs' = <<>>
                 /\ cmdPc' = IF build = "part_000" THEN "settle" ELSE "updateVolume"
                 /\ UNCHANGED <<proc, hostVolume, hostBattery, lastPub, volumeTickerC>>
              \/ /\ proc' = "fatal"
                 /\ hostCall' = setMute(ParseBool(m.payload).val)
                 /\ hostCalls' = Routes
                 /\ cmdPubs' = <<>>
                 /\ UNCHANGED <<cmdPc, hostVars, lastPub, volumeTickerC>>
         [] \E a \in ActionTopics :
               m.topic = CommandTopic(a) /\ m.payload = ActionLiteral(a) ->
              LET a == CHOOSE a \in ActionTopics : m.topic = CommandTopic(a)
              IN  IF build = "main.go"
                  THEN \E r \in PublishResults :
                         LET ack == Publish(StateTopic(a), Acknowledgement(a), FALSE, r)
                         IN  /\ cmdPubs' = <<ack>>
                             /\ lastPub' = ack
                             /\ volumeTickerC' = AfterWait(r)
                             /\ hostCall' = NoCall
                             /\ hostCalls' = 0
                             /\ cmdPc' = "settle"
                             /\ UNCHANGED <<proc, hostVars>>
                  ELSE /\ hostCall' = NoCall
                       /\ hostCalls' = 0
                       /\ cmdPubs' = <<>>
                       /\ cmdPc' = "act"
                       /\ UNCHANGED <<proc, hostVars, lastPub, volumeTickerC>>
         [] OTHER ->
              /\ hostCall' = NoCall
              /\ hostCalls' = 0
              /\ cmdPubs' = <<>>
              /\ proc' = IF m.topic \in KnownCommandTopics THEN proc ELSE "fatal"
              /\ UNCHANGED <<cmdPc, hostVars, lastPub, volumeTickerC>>
    /\ UNCHANGED <<build, initialConnect, connVars, tickVars>>

\* the callback is entered with message m and runs up to its first wait or sleep
Deliver(m) ==
    /\ proc = "ticking"
    /\ status = "connected"
    /\ subscribed
    /\ cmdPc = "idle"
    /\ MatchesSubscription(m.topic)
    /\ cmd' = m
    /\ CASE m.topic = CommandTopic("volume") /\ ValidVolume(m.payload) ->
              \/ /\ hostCall' = setVolume(Atoi(m.payload).val)
                 /\ hostCalls' = Routes
                 /\ hostVolume' = Atoi(m.payload).val
                 /\ cmdPubs' = <<>>
                 /\ cmdPc' = IF build = "part_000" THEN "settle" ELSE "updateVolume"
                 /\ UNCHANGED <<proc, hostMuted, hostBattery, lastPub, volumeTickerC>>
              \/ /\ proc' = "fatal"
                 /\ hostCall' = setVolume(Atoi(m.payload).val)
                 /\ hostCalls' = Routes
                 /\ cmdPubs' = <<>>
                 /\ UNCHANGED <<cmdPc, hostVars, lastPub, volumeTickerC>>
         [] m.topic = CommandTopic("mute") /\ ValidMute(m.payload) ->
              \/ /\ hostCall' = setMute(ParseBool(m.payload).val)
                 /\ hostCalls' = Routes
                 /\ hostMuted' = ParseBool(m.payload).val
                 /\ cmdPubs' = <<>>
                 /\ cmdPc' = IF build = "part_000" THEN "settle" ELSE "updateVolume"
                 /\ UNCHANGED <<proc, hostVolume, hostBattery, lastPub, volumeTickerC>>
              \/ /\ proc' = "fatal"
                 /\ hostCall' = setMute(ParseBool(m.payload).val)
                 /\ hostCalls' = Routes
                 /\ cmdPubs' = <<>>
                 /\ UNCHANGED <<cmdPc, hostVars, lastPub, volumeTickerC>>
         [] \E a \in ActionTopics :
               m.topic = CommandTopic(a) /\ m.payload = ActionLiteral(a) ->
              LET a == CHOOSE a \in ActionTopics : m.topic = CommandTopic(a)
              IN  IF build = "main.go"
                  THEN \E r \in PublishResults :
                         LET ack == Publish(StateTopic(a), Acknowledgement(a), FALSE, r)
                         IN  /\ cmdPubs' = <<ack>>
                             /\ lastPub' = ack
                             /\ volumeTickerC' = AfterWait(r)
                             /\ hostCall' = NoCall
                             /\ hostCalls' = 0
                             /\ cmdPc' = "settle"
                             /\ UNCHANGED <<proc, hostVars>>
                  ELSE /\ hostCall' = NoCall
                       /\ hostCalls' = 0
                       /\ cmdPubs' = <<>>
                       /\ cmdPc' = "act"
                       /\ UNCHANGED <<proc, hostVars, lastPub, volumeTickerC>>
         [] OTHER ->
              /\ hostCall' = NoCall
              /\ hostCalls' = 0
              /\ cmdPubs' = <<>>
              /\ UNCHANGED <<proc, cmdPc, hostVars, lastPub, volumeTickerC>>
    /\ UNCHANGED <<build, initialConnect, connVars, tickVars>>

\* time.Sleep(1 * time.Second): the settle delay of build part_000 after
\* setVolume / setMute, and the pause of build main.go after the
\* acknowledgement publish
settle ==
    /\ proc = "ticking"
    /\ cmdPc = "settle"
    /\ cmdPc' = IF cmd.topic \in {CommandTopic("volume"), CommandTopic("mute")}
                THEN "updateVolume"
                ELSE "act"
    /\ UNCHANGED <<build, proc, initialConnect, connVars, cmd, hostCall, hostCalls, cmdPubs,
                   tickVars, volumeTickerC, lastPub, hostVars>>

\* an updateVolume that publishes the number of the command it runs for
updateVolumeEcho(r) ==
    Publish(StateTopic("volume"), Itoa(Atoi(cmd.payload).val), FALSE, r)

\* updateVolume: publish strconv.Itoa(getCurrentVolume()) to state/volume, one wait
updateVolume(r) == Publish(StateTopic("volume"), Itoa(getCurrentVolume), FALSE, r)

\* updateMute: publish strconv.FormatBool(getMuteStatus()) to state/mute, one wait
updateMute(r) == Publish(StateTopic("mute"), FormatBool(getMuteStatus), FALSE, r)

\* the callback's call of updateVolume after setVolume / setMute
cmdUpdateVolume ==
    /\ proc = "ticking"
    /\ cmdPc = "updateVolume"
    /\ \/ \E r \in PublishResults :
             /\ cmdPubs' = Append(cmdPubs, updateVolume(r))
             /\ lastPub' = updateVolume(r)
             /\ volumeTickerC' = AfterWait(r)
             /\ cmdPc' = "updateMute"
             /\ UNCHANGED proc
       \/ /\ proc' = "fatal"
          /\ UNCHANGED <<cmdPubs, lastPub, volumeTickerC, cmdPc>>
    /\ UNCHANGED <<build, initialConnect, connVars, cmd, hostCall, hostCalls,
                   tickVars, hostVars>>

\* the callback's call of updateMute, which ends it
cmdUpdateMute ==
    /\ proc = "ticking"
    /\ cmdPc = "updateMute"
    /\ \/ \E r \in PublishResults :
             /\ cmdPubs' = Append(cmdPubs, updateMute(r))
             /\ lastPub' = updateMute(r)
             /\ volumeTickerC' = AfterWait(r)
             /\ cmdPc' = "idle"
             /\ UNCHANGED proc
       \/ /\ proc' = "fatal"
          /\ UNCHANGED <<cmdPubs, lastPub, volumeTickerC, cmdPc>>
    /\ UNCHANGED <<build, initialConnect, connVars, cmd, hostCall, hostCalls,
                   tickVars, hostVars>>


\* a callback that publishes the acknowledgement once the host action has been invoked
cmdActThenAck ==
    /\ proc = "ticking"
    /\ cmdPc = "act"
    /\ LET a == CHOOSE a \in ActionTopics : cmd.topic = CommandTopic(a)
       IN  /\ hostCall' = commandOf(a)
           /\ hostCalls' = Routes
           /\ \/ \E r \in PublishResults :
                    LET ack == Publish(StateTopic(a), Acknowledgement(a), FALSE, r)
                    IN  /\ cmdPubs' = Append(cmdPubs, ack)
                        /\ lastPub' = ack
                        /\ cmdPc' = "idle"
                        /\ UNCHANGED proc
              \/ /\ proc' = "fatal"
                 /\ UNCHANGED <<cmdPc, cmdPubs, lastPub>>
    /\ UNCHANGED <<build, initialConnect, connVars, cmd, tickVars,
                   volumeTickerC, hostVars>>

\* commandSleep / commandDisplaySleep / commandShutdown, which ends the callback.
\* runCommand may fail (log.Fatal); a shutdown that is not blocked ends the process.
cmdAct ==
    /\ proc = "ticking"
    /\ cmdPc = "act"
    /\ LET a == CHOOSE a \in ActionTopics : cmd.topic = CommandTopic(a)
       IN  /\ hostCall' = commandOf(a)
           /\ hostCalls' = Routes
           /\ \/ /\ cmdPc' = "idle"
                 /\ proc' \in (IF a = "shutdown" THEN {"ticking", "off"} ELSE {"ticking"})
              \/ /\ proc' = "fatal"
                 /\ UNCHANGED cmdPc
    /\ UNCHANGED <<build, initialConnect, connVars, cmd, cmdPubs, tickVars,
                   volumeTickerC, lastPub, hostVars>>

-----------------------------------------------------------------------------
(* Scheduler: the tick goroutine of main *)

\* Two seconds pass and volumeTicker fires; batteryTicker fires every 30th time.
\* connectHandler does not take that long unless one of its waits times out,
\* which AfterWait accounts for.
timePasses ==
    /\ proc = "ticking"
    /\ ocPending = 0
    /\ ocPc = 0
    /\ ~volumeTickerC \/ ~batteryTickerC
    /\ volumeTickerC' = TRUE
    /\ batteryTickerC' \in {batteryTickerC, TRUE}
    /\ UNCHANGED <<build, proc, initialConnect, connVars, cmdVars, tickPc, batteryInfo,
                   lastPub, hostVars>>


\* a volume tick that treats a publish that timed out or failed like a failed host command
volumeTickFatalOnError ==
    /\ proc = "ticking"
    /\ tickPc = "select"
    /\ volumeTickerC
    /\ \/ \E r \in PublishResults :
             /\ lastPub' = updateVolume(r)
             /\ volumeTickerC' = (r = "timeout" /\ AfterWait(r))
             /\ tickPc' = "updateMute"
             /\ proc' = IF r \in {"timeout", "error"} THEN "fatal" ELSE proc
       \/ /\ proc' = "fatal"
          /\ volumeTickerC' = FALSE
          /\ UNCHANGED <<lastPub, tickPc>>
    /\ UNCHANGED <<build, initialConnect, connVars, cmdVars, batteryTickerC, batteryInfo,
                   hostVars>>

\* case <-volumeTicker.C: updateVolume(mqttClient)
volumeTick ==
    /\ proc = "ticking"
    /\ tickPc = "select"
    /\ volumeTickerC
    /\ \/ \E r \in PublishResults :
             /\ lastPub' = updateVolume(r)
             /\ volumeTickerC' = (r = "timeout" /\ AfterWait(r))
             /\ tickPc' = "updateMute"
             /\ UNCHANGED proc
       \/ /\ proc' = "fatal"
          /\ volumeTickerC' = FALSE
          /\ UNCHANGED <<lastPub, tickPc>>
    /\ UNCHANGED <<build, initialConnect, connVars, cmdVars, batteryTickerC, batteryInfo,
                   hostVars>>


\* a tick whose updateMute skips the publish when getMuteStatus failed, and goes on
tickUpdateMuteSkips ==
    /\ proc = "ticking"
    /\ tickPc = "updateMute"
    /\ \/ \E r \in PublishResults :
             /\ lastPub' = updateMute(r)
             /\ volumeTickerC' = AfterWait(r)
       \/ UNCHANGED <<lastPub, volumeTickerC>>
    /\ tickPc' = "select"
    /\ UNCHANGED <<build, proc, initialConnect, connVars, cmdVars, batteryTickerC, batteryInfo,
                   hostVars>>

\* updateMute(mqttClient) of the same case, then back to the select
tickUpdateMute ==
    /\ proc = "ticking"
    /\ tickPc = "updateMute"
    /\ \/ \E r \in PublishResults :
             /\ lastPub' = updateMute(r)
             /\ volumeTickerC' = AfterWait(r)
             /\ tickPc' = "select"
             /\ UNCHANGED proc
       \/ /\ proc' = "fatal"
          /\ UNCHANGED <<lastPub, tickPc, volumeTickerC>>
    /\ UNCHANGED <<build, initialConnect, connVars, cmdVars, batteryTickerC, batteryInfo,
                   hostVars>>

\* updateBattery with the result info of its getBatteryInfo: state/battery and
\* state/power_adapter, each with its own wait
updateBattery(info, r1, r2) ==
    << Publish(StateTopic("battery"), info.percent, FALSE, r1),
       Publish(StateTopic("power_adapter"), FormatBool(info.isCharging), FALSE, r2) >>

\* case <-batteryTicker.C: updateBattery(mqttClient), up to the end of the
\* wait of its first publish
batteryTick ==
    /\ proc = "ticking"
    /\ tickPc = "select"
    /\ batteryTickerC
    /\ batteryTickerC' = FALSE
    /\ \/ \E r \in PublishResults :
             /\ batteryInfo' = getBatteryInfo
             /\ lastPub' = updateBattery(getBatteryInfo, r, r)[1]
             /\ volumeTickerC' = AfterWait(r)
             /\ tickPc' = "powerAdapter"
             /\ UNCHANGED proc
       \/ /\ proc' = "fatal"
          /\ UNCHANGED <<lastPub, volumeTickerC, tickPc, batteryInfo>>
    /\ UNCHANGED <<build, initialConnect, connVars, cmdVars, hostVars>>

\* a second publish of updateBattery that asks the host again
tickPowerAdapterRequery ==
    /\ proc = "ticking"
    /\ tickPc = "powerAdapter"
    /\ \E r \in PublishResults :
          /\ lastPub' = updateBattery(getBatteryInfo, r, r)[2]
          /\ volumeTickerC' = AfterWait(r)
    /\ tickPc' = "select"
    /\ batteryInfo' = NoInfo
    /\ UNCHANGED <<build, proc, initialConnect, connVars, cmdVars, batteryTickerC, hostVars>>

\* the second publish of updateBattery, which ends it
tickPowerAdapter ==
    /\ proc = "ticking"
    /\ tickPc = "powerAdapter"
    /\ \E r \in PublishResults :
          /\ lastPub' = updateBattery(batteryInfo, r, r)[2]
          /\ volumeTickerC' = AfterWait(r)
    /\ tickPc' = "select"
    /\ batteryInfo' = NoInfo
    /\ UNCHANGED <<build, proc, initialConnect, connVars, cmdVars, batteryTickerC, hostVars>>

-----------------------------------------------------------------------------
(* Environment: the user or the device changes the host's state *)

\* the output volume or the mute flag changes
hostChanges ==
    /\ proc = "ticking"
    /\ \/ /\ hostVolume' \in HostVolumes \ {hostVolume}
          /\ UNCHANGED hostMuted
       \/ /\ hostMuted' = ~hostMuted
          /\ UNCHANGED hostVolume
    /\ UNCHANGED <<build, proc, initialConnect, connVars, cmdVars, tickVars,
                   volumeTickerC, lastPub, hostBattery>>

\* the battery charges or discharges, the power adapter is plugged or pulled
batteryChanges ==
    /\ proc = "ticking"
    /\ hostBattery' \in BatteryStates \ {hostBattery}
    /\ UNCHANGED <<build, proc, initialConnect, connVars, cmdVars, tickVars,
                   volumeTickerC, lastPub, hostVolume, hostMuted>>

-----------------------------------------------------------------------------
Next ==
    \/ getMQTTClient
    \/ connectHandler
    \/ publishConfig
    \/ listen
    \/ connectLostHandler
    \/ reconnectLoop
    \/ autoReconnect
    \/ autoReconnectFails
    \/ retryInterval
    \/ brokerRecovers
    \/ \E m \in Messages : Deliver(m)
    \/ settle
    \/ cmdUpdateVolume
    \/ cmdUpdateMute
    \/ cmdAct
    \/ timePasses
    \/ volumeTick
    \/ tickUpdateMute
    \/ batteryTick
    \/ tickPowerAdapter
    \/ hostChanges
    \/ batteryChanges

Spec == Init /\ [][Next]_vars

-----------------------------------------------------------------------------
(* Component specifications.  Spec is the whole program; its state space is   *)
(* the product of the connection supervisor, the scheduler and the command   *)
(* router.  SpecConn runs start-up, the connection supervisor, discovery and *)
(* the scheduler on a host that does not change and without inbound          *)
(* commands; SpecRouter runs the command callback and the host on an         *)
(* established, subscribed session.                                          *)

NextConn ==
    \/ getMQTTClient
    \/ connectHandler
    \/ publishConfig
    \/ listen
    \/ connectLostHandler
    \/ reconnectLoop
    \/ autoReconnect
    \/ autoReconnectFails
    \/ retryInterval
    \/ brokerRecovers
    \/ timePasses
    \/ volumeTick
    \/ tickUpdateMute
    \/ batteryTick
    \/ tickPowerAdapter

\* one state of the host
InitConn ==
    /\ Init
    /\ hostVolume = 55
    /\ hostMuted = FALSE
    /\ hostBattery.source = "AC Power"

SpecConn == InitConn /\ [][NextConn]_vars

\* Every goroutine that can take a step eventually takes it (the Go scheduler);
\* the client keeps trying to reconnect.  Nothing is assumed of the broker,
\* the network or the host.
FairConn ==
    /\ WF_vars(connectHandler)
    /\ WF_vars(publishConfig)
    /\ WF_vars(listen)
    /\ WF_vars(reconnectLoop)
    /\ WF_vars(autoReconnect)
    /\ WF_vars(autoReconnectFails)
    /\ WF_vars(retryInterval)

SpecConnFair == SpecConn /\ FairConn


\* The tickers keep firing and the tick goroutine keeps being scheduled; a
\* select with both cases ready picks one of them at random, so neither case
\* is passed over for ever.
FairTick ==
    /\ WF_vars(timePasses)
    /\ SF_vars(volumeTick)
    /\ WF_vars(tickUpdateMute)
    /\ SF_vars(batteryTick)
    /\ WF_vars(tickPowerAdapter)

\* the tick goroutine is the same code in both builds
InitTick == InitConn /\ build = "main.go"

SpecTickFair == InitTick /\ [][NextConn]_vars /\ FairConn /\ FairTick

\* the state after a start-up in which the first Connect, the discovery pass
\* and the subscription all succeeded
InitRouter ==
    /\ build \in Builds
    /\ proc = "ticking"
    /\ initialConnect = "ok"
    /\ status = "connected"
    /\ brokerUp = TRUE
    /\ subscribed = TRUE
    /\ losses = 0
    /\ ocPending = 0
    /\ ocPc = 0
    /\ discoveryCalls = 1
    /\ listenCalls = 1
    /\ reconnectLoops = 0
    /\ retryWait = FALSE
    /\ cmd = NoCmd
    /\ cmdPc = "idle"
    /\ hostCall = NoCall
    /\ hostCalls = 0
    /\ cmdPubs = <<>>
    /\ tickPc = "select"
    /\ volumeTickerC = FALSE
    /\ batteryTickerC = FALSE
    /\ batteryInfo = NoInfo
    /\ LET e == publishHADiscoveryConfig(build)[NumEntities]
       IN  lastPub = Publish(configTopic(e.component, e.objectId), e.config, TRUE, "ok")
    /\ hostVolume \in HostVolumes
    /\ hostMuted \in BOOLEAN
    /\ hostBattery \in {b \in BatteryStates : b.source = "AC Power"}

NextRouter ==
    \/ \E m \in Messages : Deliver(m)
    \/ settle
    \/ cmdUpdateVolume
    \/ cmdUpdateMute
    \/ cmdAct
    \/ hostChanges

SpecRouter == InitRouter /\ [][NextRouter]_vars


\* the scheduler on an established session, on a host whose volume, mute flag
\* and battery change
NextTick ==
    \/ timePasses
    \/ volumeTick
    \/ tickUpdateMute
    \/ batteryTick
    \/ tickPowerAdapter
    \/ hostChanges
    \/ batteryChanges

SpecTick == InitRouter /\ [][NextTick]_vars


VolumeMuteTopics == {CommandTopic("volume"), CommandTopic("mute")}

\* one valid command for each branch of the callback
PublishingCommands ==
    { [topic |-> CommandTopic("volume"), payload |-> <<"5","5">>],
      [topic |-> CommandTopic("mute"), payload |-> <<"f","a","l","s","e">>] }
    \cup { [topic |-> CommandTopic(a), payload |-> ActionLiteral(a)] : a \in ActionTopics }

\* every place of the program that publishes: start-up, the discovery pass,
\* the tick goroutine and the command callback, on a session that is not lost
NextPublish ==
    \/ getMQTTClient
    \/ connectHandler
    \/ publishConfig
    \/ listen
    \/ \E m \in PublishingCommands : Deliver(m)
    \/ settle
    \/ cmdUpdateVolume
    \/ cmdUpdateMute
    \/ cmdAct
    \/ timePasses
    \/ volumeTick
    \/ tickUpdateMute
    \/ batteryTick
    \/ tickPowerAdapter

SpecPublish == InitConn /\ [][NextPublish]_vars


\* The tick goroutine next to the callback of volume and mute commands, on an
\* established session and a host whose volume and mute flag change.
NextConverge ==
    \/ timePasses
    \/ volumeTick
    \/ tickUpdateMute
    \/ batteryTick
    \/ tickPowerAdapter
    \/ hostChanges
    \/ \E m \in {c \in PublishingCommands : c.topic \in VolumeMuteTopics} : Deliver(m)
    \/ cmdUpdateVolume
    \/ cmdUpdateMute

\* the callback's goroutine keeps being scheduled
FairCallback ==
    /\ WF_vars(cmdUpdateVolume)
    /\ WF_vars(cmdUpdateMute)

\* the callback of src/main.go, which goes from the mutator to updateVolume
\* without a pause
InitConverge == InitRouter /\ build = "main.go"

SpecConvergeFair == InitConverge /\ [][NextConverge]_vars /\ FairTick /\ FairCallback

-----------------------------------------------------------------------------
(* Command router properties (SpecRouter) *)

\* the decimal forms of the integers MinVolume..MaxVolume, with or without '+'
VolumeNumerals ==
    UNION { {Itoa(v), <<"+">> \o Itoa(v)} : v \in MinVolume..MaxVolume }

Rejected == hostCall = NoCall /\ cmdPubs = <<>> /\ cmdPc = "idle"

\* C1: a message on command/volume whose payload is not an integer in 0..100
\* (out of range or not a number) makes the callback call no host command
\* and publish nothing: setVolume is not called, no state/volume and no
\* state/mute message is published, and the callback has returned.
C1_InvalidVolumeRejected ==
    (cmd.topic = CommandTopic("volume") /\ cmd.payload \notin VolumeNumerals) => Rejected

C1_Witness ==
    /\ cmd.topic = CommandTopic("volume")
    /\ cmd.payload = <<"1","5","0">>
    /\ Rejected

\* C2: in the callback of a valid volume command, the state/volume message is
\* published after setVolume and carries the decimal form of the volume the
\* host has at that moment (the read of getCurrentVolume), whatever the
\* command's payload was.
C2_VolumeReadBack ==
    [][(cmd.topic = CommandTopic("volume") /\ cmdPc = "updateVolume" /\ cmdPc' = "updateMute")
        => /\ hostCall.op = "setVolume"
           /\ cmdPubs' = Append(cmdPubs, cmdPubs'[Len(cmdPubs')])
           /\ cmdPubs'[Len(cmdPubs')].topic = StateTopic("volume")
           /\ cmdPubs'[Len(cmdPubs')].payload = Itoa(hostVolume)]_vars

\* the host reported a volume other than the one commanded, and that was published
C2_Witness ==
    /\ cmd = [topic |-> CommandTopic("volume"), payload |-> <<"1","0","0">>]
    /\ Len(cmdPubs) >= 1
    /\ cmdPubs[1].topic = StateTopic("volume")
    /\ cmdPubs[1].payload = <<"5","6">>

\* C3: a message on command/mute whose payload does not decode as a boolean
\* makes the callback call no host command and publish nothing.
C3_MalformedMuteRejected ==
    (cmd.topic = CommandTopic("mute") /\ cmd.payload \notin (TrueForms \cup FalseForms))
        => Rejected

C3_Witness ==
    /\ cmd.topic = CommandTopic("mute")
    /\ cmd.payload = <<"n","o","t","a","b","o","o","l">>
    /\ Rejected

\* C4 as stated: setMute is called for a mute command only if the payload is
\* the string "true" or the string "false".
C4_OnlyTrueFalse ==
    (cmd.topic = CommandTopic("mute") /\ hostCall.op = "setMute")
        => cmd.payload \in { <<"t","r","u","e">>, <<"f","a","l","s","e">> }

\* C4 amended: setMute(b) is called for a mute command exactly if the payload
\* is one of the forms strconv.ParseBool accepts: 1, t, T, TRUE, true, True
\* (b = true) or 0, f, F, FALSE, false, False (b = false); every other payload
\* is rejected without a call of setMute.
C4_ParseBoolForms ==
    cmd.topic = CommandTopic("mute") =>
        /\ cmd.payload \in TrueForms => hostCall = [op |-> "setMute", arg |-> <<"t","r","u","e">>]
        /\ cmd.payload \in FalseForms
              => hostCall = [op |-> "setMute", arg |-> <<"f","a","l","s","e">>]
        /\ cmd.payload \notin (TrueForms \cup FalseForms) => hostCall = NoCall

C4_Witness ==
    /\ cmd = [topic |-> CommandTopic("mute"), payload |-> <<"1">>]
    /\ hostCall = [op |-> "setMute", arg |-> <<"t","r","u","e">>]

\* C5: commandSleep, commandDisplaySleep and commandShutdown are called only
\* for the payload "sleep" on command/sleep, "displaysleep" on
\* command/displaysleep and "shutdown" on command/shutdown; any other payload
\* on these topics makes the callback call no host command and publish nothing.
C5_ExactLiteral ==
    /\ hostCall.op = "commandSleep"
          => cmd = [topic |-> CommandTopic("sleep"), payload |-> sleepLiteral]
    /\ hostCall.op = "commandDisplaySleep"
          => cmd = [topic |-> CommandTopic("displaysleep"), payload |-> displaysleepLiteral]
    /\ hostCall.op = "commandShutdown"
          => cmd = [topic |-> CommandTopic("shutdown"), payload |-> shutdownLiteral]
    /\ (cmd.topic = CommandTopic("sleep") /\ cmd.payload # sleepLiteral) => Rejected
    /\ (cmd.topic = CommandTopic("displaysleep") /\ cmd.payload # displaysleepLiteral)
          => Rejected
    /\ (cmd.topic = CommandTopic("shutdown") /\ cmd.payload # shutdownLiteral) => Rejected

\* the literal of another action arrived on command/displaysleep and was dropped
C5_Witness ==
    /\ cmd = [topic |-> CommandTopic("displaysleep"), payload |-> sleepLiteral]
    /\ Rejected

-----------------------------------------------------------------------------
(* Connection supervisor properties (SpecConn, SpecConnFair) *)

\* sessions established so far
Sessions == IF status = "connected" THEN losses + 1 ELSE losses

\* C6: every session that is established, the first one and each one restored
\* after a connection loss, triggers exactly one call of
\* publishHADiscoveryConfig and one call of listen: the callbacks launched
\* plus the discovery passes started equal the sessions established, listen
\* is called once per pass, and the reconnect goroutine adds none.
C6_OnePassPerSession ==
    /\ discoveryCalls + ocPending = (IF proc \in {"starting", "panic"} THEN 0 ELSE Sessions)
    /\ listenCalls = (IF ocPc = 0 THEN discoveryCalls ELSE discoveryCalls - 1)

\* a session was restored after a loss, its pass and its subscription are done
\* and the reconnect goroutine has ended
C6_Witness ==
    /\ losses >= 1
    /\ status = "connected"
    /\ reconnectLoops = 0
    /\ ocPending = 0
    /\ ocPc = 0
    /\ discoveryCalls = losses + 1
    /\ listenCalls = losses + 1

\* C7: at most one reconnect goroutine started by connectLostHandler runs at
\* any time.
C7_AtMostOneLoop == reconnectLoops <= 1

\* C8: a first Connect that times out or fails ends the process: it never
\* reaches the tick loop and nothing is ever published; a process that
\* ticks had a successful first Connect.
C8_InitialConnectFatal ==
    /\ initialConnect \in {"timeout", "error"}
          => /\ proc = "panic"
             /\ lastPub = NoPub
             /\ tickPc = "select" /\ ~volumeTickerC /\ ~batteryTickerC
             /\ discoveryCalls = 0 /\ ocPending = 0
    /\ proc \in {"ticking", "fatal", "off"} => initialConnect = "ok"

C8_Witness ==
    /\ initialConnect = "timeout"
    /\ proc = "panic"
    /\ brokerUp

IsStateTopic(t) == Len(t) = 4 /\ SubSeq(t, 1, 3) = getTopicPrefix \o <<"state">>

C10_SetupBeforeTicks ==
    IsStateTopic(lastPub.topic) => listenCalls >= 1

-----------------------------------------------------------------------------
(* Discovery publisher properties (SpecConn) *)

\* the publish of the k-th descriptor of the pass, with any outcome
IsConfigPublish(p, k) ==
    LET e == publishHADiscoveryConfig(build)[k]
    IN  /\ p.topic = configTopic(e.component, e.objectId)
        /\ p.payload = e.config
        /\ p.retained

\* C11: a discovery pass is never cut short by the outcome of a publish: from
\* the k-th of its seven descriptors the pass only moves on by publishing that
\* descriptor and going to the next, whatever the token of the previous
\* publish said, and after the seventh it only moves on by calling listen,
\* which ends the pass.
C11_PassNotAborted ==
    [][ /\ (ocPc \in 1..NumEntities /\ ocPc' # ocPc)
              => (ocPc' = ocPc + 1 /\ IsConfigPublish(lastPub', ocPc))
        /\ (ocPc = NumEntities + 1 /\ ocPc' # ocPc)
              => (ocPc' = 0 /\ listenCalls' = listenCalls + 1)
        /\ (ocPc = 0 /\ ocPc' # ocPc) => ocPc' = 1 ]_vars

\* the publish of the last descriptor failed and listen was called all the same
C11_Witness ==
    /\ ocPc = 0
    /\ listenCalls = 1
    /\ IsConfigPublish(lastPub, NumEntities)
    /\ lastPub.result = "error"
    /\ subscribed

IsConfigTopic(t) == Len(t) = 4 /\ t[1] = "homeassistant" /\ t[4] = "config"

-----------------------------------------------------------------------------
(* State publisher properties (SpecConn, SpecTickFair) *)

FailedResults == {"timeout", "error"}

\* C13: a state publish that times out or fails is not fatal and is not
\* retried.  No step that publishes ends the process; each position of the
\* tick goroutine makes one publish attempt and moves on whatever the token
\* says (state/volume then state/mute; state/battery then
\* state/power_adapter); and, as long as no host command fails, a volume
\* publish that failed is followed by the rest of its tick and by a next tick
\* with a new read and a new publish to state/volume.
C13_PublishFailureNotFatal ==
    /\ [][ /\ (proc = "ticking" /\ lastPub' # lastPub) => proc' = "ticking"
           /\ (tickPc = "select" /\ tickPc' = "updateMute")
                 => lastPub' \in {updateVolume(r) : r \in PublishResults}
           /\ (tickPc = "select" /\ tickPc' # tickPc) => tickPc' \in {"updateMute", "powerAdapter"}
           /\ (tickPc = "updateMute" /\ tickPc' # tickPc)
                 => (tickPc' = "select" /\ lastPub' \in {updateMute(r) : r \in PublishResults})
           /\ (tickPc = "select" /\ tickPc' = "powerAdapter")
                 => lastPub'.topic = StateTopic("battery")
           /\ (tickPc = "powerAdapter" /\ tickPc' # tickPc)
                 => (tickPc' = "select" /\ lastPub'.topic = StateTopic("power_adapter")) ]_vars
    /\ (tickPc = "updateMute" /\ lastPub.topic = StateTopic("volume")
                              /\ lastPub.result \in FailedResults)
          ~> (tickPc = "select" \/ proc # "ticking")
    /\ (tickPc = "select" /\ proc = "ticking")
          ~> (tickPc = "updateMute" \/ proc # "ticking")

\* the volume publish of a tick timed out and the tick goes on with updateMute
C13_Witness ==
    /\ proc = "ticking"
    /\ tickPc = "updateMute"
    /\ lastPub.topic = StateTopic("volume")
    /\ lastPub.result = "timeout"

\* C14: once start-up has succeeded no broker-level event ends the process.
\* Every step in which something happens at the broker side (a publish with
\* any outcome, a subscription with any outcome, a connection loss, a
\* reconnect attempt that fails or succeeds, a retry pause) leaves the process
\* running; the steps that end a running process touch neither the
\* connection nor a publish.
C14_BrokerErrorsNotFatal ==
    [][ (proc = "ticking" /\ (connVars' # connVars \/ lastPub' # lastPub))
            => proc' = "ticking" ]_vars

\* after a publish that failed, a lost connection and a failed reconnect
\* attempt the process still runs
C14_Witness ==
    /\ proc = "ticking"
    /\ losses = MaxLosses
    /\ status = "reconnecting"
    /\ retryWait
    /\ ~subscribed
    /\ lastPub.result \in FailedResults

C16_OneBatteryQuery ==
    [][ /\ (tickPc = "select" /\ batteryTickerC /\ ~batteryTickerC' /\ proc' = "ticking")
              => /\ tickPc' = "powerAdapter"
                 /\ batteryInfo' = getBatteryInfo
                 /\ lastPub'.topic = StateTopic("battery")
                 /\ lastPub'.payload = batteryInfo'.percent
        /\ (tickPc = "powerAdapter" /\ tickPc' = tickPc) => batteryInfo' = batteryInfo
        /\ (tickPc = "powerAdapter" /\ tickPc' # tickPc)
              => /\ tickPc' = "select"
                 /\ lastPub'.topic = StateTopic("power_adapter")
                 /\ lastPub'.payload = FormatBool(batteryInfo.isCharging) ]_vars

\* the battery publish failed, the power adapter was pulled during its wait,
\* and the power-adapter publish is next
C16_Witness ==
    /\ tickPc = "powerAdapter"
    /\ lastPub.topic = StateTopic("battery")
    /\ lastPub.result \in FailedResults
    /\ batteryInfo.isCharging
    /\ hostBattery.source = "Battery Power"

-----------------------------------------------------------------------------
(* Command router properties, continued (SpecRouter) *)

\* C17: a message under the command namespace whose topic is none of
\* command/volume, command/mute, command/sleep, command/displaysleep and
\* command/shutdown is ignored: the step that delivers it calls no host
\* command, publishes nothing, changes nothing on the host, leaves the
\* process running and the callback has returned.
C17_UnknownTopicIgnored ==
    [][ (cmd' # cmd /\ cmd'.topic \notin KnownCommandTopics)
            => /\ MatchesSubscription(cmd'.topic)
               /\ hostCall' = NoCall
               /\ cmdPubs' = <<>>
               /\ cmdPc' = "idle"
               /\ lastPub' = lastPub
               /\ hostVars' = hostVars
               /\ proc' = "ticking" ]_vars

\* a message on command/volume/set was delivered and ignored
C17_Witness ==
    /\ cmd.topic = CommandTopic("volume") \o <<"set">>
    /\ hostCall = NoCall
    /\ cmdPubs = <<>>
    /\ proc = "ticking"
    /\ cmdPc = "idle"

-----------------------------------------------------------------------------
(* Discovery publisher properties, continued (SpecConn) *)

\* the value of the field key of a marshalled descriptor
Field(config, key) ==
    LET k == CHOOSE k \in 1..Len(config) : config[k][1] = key
    IN  config[k][2]

HasField(config, key) == \E k \in 1..Len(config) : config[k][1] = key

EntityIds ==
    {hostname \o "_" \o e : e \in {"volume", "mute", "battery", "power_adapter",
                                   "sleep", "display_sleep", "shutdown"}}

Kinds == {"number", "switch", "button", "sensor", "binary_sensor"}

\* C18: every discovery message goes to
\* homeassistant/<kind>/<host-identity>_<entity>/config and carries a
\* unique_id equal to the <host-identity>_<entity> segment of its topic; the
\* descriptor of the volume is of kind number, with min = 0, max = 100 and
\* unique_id = <host-identity>_volume.
C18_DiscoveryTopicAndId ==
    IsConfigTopic(lastPub.topic)
        => /\ lastPub.topic[2] \in Kinds
           /\ lastPub.topic[3] \in EntityIds
           /\ HasField(lastPub.payload, "unique_id")
           /\ Field(lastPub.payload, "unique_id") = lastPub.topic[3]
           /\ lastPub.topic[3] = hostname \o "_volume"
                 => /\ lastPub.topic[2] = "number"
                    /\ Field(lastPub.payload, "min") = 0
                    /\ Field(lastPub.payload, "max") = 100
                    /\ Field(lastPub.payload, "unique_id") = "MacBookPRO_M2_volume"

\* the volume descriptor was published
C18_Witness ==
    /\ lastPub.topic = <<"homeassistant", "number", "MacBookPRO_M2_volume", "config">>
    /\ lastPub.result = "ok"
    /\ ocPc \in 2..NumEntities

-----------------------------------------------------------------------------
(* Command router properties, continued (SpecRouter) *)

\* C19: a valid volume or mute command runs, in this order, the host mutator
\* (setVolume or setMute), the settle delay, a publish to state/volume and a
\* publish to state/mute, the last one whatever the outcome of the one
\* before.
C19_MutateSettlePublish ==
    [][ /\ (cmdPc = "idle" /\ cmdPc' # cmdPc /\ cmd'.topic \in VolumeMuteTopics)
              => /\ hostCall'.op = (IF cmd'.topic = CommandTopic("volume")
                                    THEN "setVolume" ELSE "setMute")
                 /\ cmdPubs' = <<>>
                 /\ cmdPc' = "settle"
        /\ (cmdPc = "settle" /\ cmdPc' # cmdPc /\ cmd.topic \in VolumeMuteTopics)
              => (cmdPc' = "updateVolume" /\ cmdPubs' = <<>>)
        /\ (cmdPc = "updateVolume" /\ cmdPc' # cmdPc)
              => /\ cmdPc' = "updateMute"
                 /\ Len(cmdPubs') = 1
                 /\ cmdPubs'[1].topic = StateTopic("volume")
        /\ (cmdPc = "updateMute" /\ cmdPc' # cmdPc)
              => /\ cmdPc' = "idle"
                 /\ Len(cmdPubs') = 2
                 /\ cmdPubs'[2].topic = StateTopic("mute") ]_vars

ActionCommandTopics == {CommandTopic(a) : a \in ActionTopics}

\* C20: for a sleep, displaysleep or shutdown command with its literal, an
\* acknowledgement is published only before the host action: the step that
\* publishes it has not invoked the action yet, and the step that invokes
\* the action publishes nothing and ends the callback.
\* The action is invoked whatever the outcome of the acknowledgement: the
\* callback goes from the publish to its pause, from the pause to the
\* action, and the action is that of the command's topic.
C20_AckBeforeAction ==
    [][ /\ (cmdPubs' # cmdPubs /\ cmdPubs' # <<>> /\ cmd'.topic \in ActionCommandTopics)
              => /\ hostCall' = NoCall
                 /\ cmdPc' = "settle"
                 /\ Len(cmdPubs') = 1
                 /\ \E a \in ActionTopics :
                       /\ cmd'.topic = CommandTopic(a)
                       /\ cmd'.payload = ActionLiteral(a)
                       /\ cmdPubs'[1].topic = StateTopic(a)
                       /\ cmdPubs'[1].payload = Acknowledgement(a)
        /\ (cmdPc = "settle" /\ cmd.topic \in ActionCommandTopics /\ cmdPc' # cmdPc)
              => cmdPc' = "act"
        /\ (cmdPc = "act" /\ hostCall' # hostCall)
              => /\ \E a \in ActionTopics :
                       cmd.topic = CommandTopic(a) /\ hostCall' = commandOf(a)
                 /\ cmdPubs' = cmdPubs
                 /\ lastPub' = lastPub
                 /\ cmdPc' = "idle" \/ proc' # "ticking" ]_vars

\* the acknowledgement of a sleep command timed out and commandSleep was invoked
C20_Witness ==
    /\ cmd.topic = CommandTopic("sleep")
    /\ Len(cmdPubs) = 1
    /\ cmdPubs[1].topic = StateTopic("sleep")
    /\ cmdPubs[1].result = "timeout"
    /\ hostCall.op = "commandSleep"
    /\ cmdPc = "idle"

-----------------------------------------------------------------------------
(* Properties of all publishers (SpecPublish) *)

StateNames ==
    {"volume", "mute", "battery", "power_adapter", "sleep", "displaysleep", "shutdown"}

\* p is a retained discovery descriptor or a non-retained state message
RetainedAsItShould(p) ==
    \/ IsConfigTopic(p.topic) /\ p.retained
    \/ /\ IsStateTopic(p.topic)
       /\ p.topic[4] \in StateNames
       /\ ~p.retained

\* C21: every discovery descriptor is published retained, every state
\* message (volume, mute, battery, power_adapter and the three
\* acknowledgements) is published not retained, nothing else is published,
\* and no message is ever published under the command namespace.
C21_RetainedFlags ==
    /\ lastPub # NoPub
          => (RetainedAsItShould(lastPub) /\ ~MatchesSubscription(lastPub.topic))
    /\ \A k \in 1..Len(cmdPubs) :
          /\ IsStateTopic(cmdPubs[k].topic)
          /\ RetainedAsItShould(cmdPubs[k])

\* after a complete start-up with its discovery pass, the acknowledgement of
\* a shutdown command was published
C21_Witness ==
    /\ discoveryCalls = 1
    /\ listenCalls = 1
    /\ lastPub.topic = StateTopic("shutdown")
    /\ ~lastPub.retained

-----------------------------------------------------------------------------
(* Host failures (SpecPublish) *)

\* the tick goroutine or the command callback is about to call the host
AtHostCall ==
    /\ proc = "ticking"
    /\ \/ tickPc = "select" /\ (volumeTickerC \/ batteryTickerC)
       \/ tickPc = "updateMute"
       \/ cmdPc = "idle" /\ status = "connected" /\ subscribed
       \/ cmdPc \in {"updateVolume", "updateMute", "act"}

\* C22: a failed host call ends the whole process.  Wherever the tick
\* goroutine or the command callback calls the host (getCurrentVolume,
\* getMuteStatus, getBatteryInfo, setVolume, setMute, commandSleep,
\* commandDisplaySleep, commandShutdown) the call can fail, and its failure
\* is the exit of the process; the step that exits publishes nothing, and
\* after it no tick, no command and no connection event is processed.
C22_HostFailureExits ==
    /\ [](proc = "ticking" =>
            /\ (tickPc = "select" /\ volumeTickerC) => ENABLED (volumeTick /\ proc' = "fatal")
            /\ (tickPc = "select" /\ batteryTickerC) => ENABLED (batteryTick /\ proc' = "fatal")
            /\ tickPc = "updateMute" => ENABLED (tickUpdateMute /\ proc' = "fatal")
            /\ (cmdPc = "idle" /\ status = "connected" /\ subscribed)
                  => \A m \in {c \in PublishingCommands : c.topic \in VolumeMuteTopics} :
                        ENABLED (Deliver(m) /\ proc' = "fatal")
            /\ cmdPc = "updateVolume" => ENABLED (cmdUpdateVolume /\ proc' = "fatal")
            /\ cmdPc = "updateMute" => ENABLED (cmdUpdateMute /\ proc' = "fatal")
            /\ cmdPc = "act" => ENABLED (cmdAct /\ proc' = "fatal"))
    /\ [][ /\ proc = "fatal" => vars' = vars
           /\ (proc = "ticking" /\ proc' = "fatal") => (AtHostCall /\ lastPub' = lastPub) ]_vars

\* getCurrentVolume failed in the callback of a volume command while a tick
\* was due: the process is gone and the tick stays unserved
C22_Witness ==
    /\ proc = "fatal"
    /\ cmdPc = "updateVolume"
    /\ hostCall.op = "setVolume"
    /\ volumeTickerC

-----------------------------------------------------------------------------
(* Convergence of the published state (SpecConvergeFair) *)

\* a message on state/volume or state/mute carries the host's current value
PublishesHostState ==
    /\ lastPub.topic = StateTopic("volume") => lastPub.payload = Itoa(hostVolume)
    /\ lastPub.topic = StateTopic("mute") => lastPub.payload = FormatBool(hostMuted)

\* C23: the published state converges to the host's.  If from some moment on
\* the session is connected, the process runs and the host's volume and mute
\* flag do not change any more, then messages keep being published to
\* state/volume and to state/mute, and from some moment on every one of
\* them, from the tick goroutine or from a command callback, carries the
\* host's value: the most recent message on each topic equals the host's
\* value, and stays so.
C23_PublishedStateConverges ==
    (/\ <>[](proc = "ticking" /\ status = "connected")
     /\ <>[][hostVolume' = hostVolume /\ hostMuted' = hostMuted]_vars)
        => /\ <>[]PublishesHostState
           /\ []<>(lastPub.topic = StateTopic("volume"))
           /\ []<>(lastPub.topic = StateTopic("mute"))

\* a command set the volume to 55, the user then turned it to 56, and the
\* message on state/volume says 56
C23_Witness ==
    /\ hostCall = setVolume(55)
    /\ hostVolume = 56
    /\ lastPub.topic = StateTopic("volume")
    /\ lastPub.payload = <<"5", "6">>
    /\ proc = "ticking"

-----------------------------------------------------------------------------
(* Commands over reconnects (SpecReconnect) *)

\* one valid command of the volume branch and one of the action branches
ReconnectCommands ==
    {c \in PublishingCommands :
        c.topic \in {CommandTopic("volume"), CommandTopic("shutdown")}}

\* The session with its losses and reconnects, every connect event running
\* connectHandler and with it listen, next to the callback of the commands
\* that arrive on the session.
NextReconnect ==
    \/ getMQTTClient
    \/ connectHandler
    \/ publishConfig
    \/ listen
    \/ connectLostHandler
    \/ reconnectLoop
    \/ autoReconnect
    \/ autoReconnectFails
    \/ retryInterval
    \/ brokerRecovers
    \/ \E m \in ReconnectCommands : Deliver(m)
    \/ settle
    \/ cmdUpdateVolume
    \/ cmdUpdateMute
    \/ cmdAct

SpecReconnect == InitConn /\ [][NextReconnect]_vars

\* a valid command: one that reaches the host action of its branch
ValidCommand(m) ==
    \/ m.topic = CommandTopic("volume") /\ ValidVolume(m.payload)
    \/ m.topic = CommandTopic("mute") /\ ValidMute(m.payload)
    \/ \E a \in ActionTopics : m.topic = CommandTopic(a) /\ m.payload = ActionLiteral(a)

====
